---- MODULE Spec2Model ----
(***************************************************************************)
(* Model of server.py: the two MCP tools brave_search and                  *)
(* fetch_webpage_text and the helper make_request.                         *)
(*                                                                         *)
(* Python strings are TLA+ strings (Len, SubSeq, Head, Tail and \o work on *)
(* them character by character).  Page text, which can be longer than      *)
(* MAX_FETCH_CHARS, is kept run-length encoded: a sequence of runs [c, n], *)
(* the string c repeated n >= 1 times.  The value a tool returns is held   *)
(* in that form too; Str gives the string a run sequence stands for.       *)
(***************************************************************************)
EXTENDS Integers, Sequences, FiniteSets, TLC

(* ---------------- bounds of the enumerated inputs ---------------- *)
MaxResults == 6      \* longest upstream web.results array
MaxNodes == 2        \* most elements in a fetched HTML body

(* ---------------- configuration (server.py 15-18) ---------------- *)
USER_AGENT == "MCPWebUtilServer/1.0 (LanguageModelIntegration; +https://modelcontextprotocol.io)"
MAX_SEARCH_RESULTS == 5
MAX_FETCH_CHARS == 500000

(* os.getenv("BRAVE_API_KEY"): None, or the variable's value *)
KeyValues == {[set |-> FALSE, value |-> ""], [set |-> TRUE, value |-> ""],
              [set |-> TRUE, value |-> "BSA-key"]}

(* ---------------- Python helpers ---------------- *)
Min(a, b) == IF a < b THEN a ELSE b

Ok(v) == [kind |-> "ok", value |-> v]
Exc(c, m) == [kind |-> "exc", cls |-> c, msg |-> m]

RECURSIVE Rep(_, _)
(* c * n *)
Rep(c, n) ==
    IF n = 0 THEN ""
    ELSE IF n = 1 THEN c
    ELSE LET h == Rep(c, n \div 2)
         IN IF n % 2 = 1 THEN h \o h \o c ELSE h \o h

(* sub in s, for strings *)
Contains(s, sub) ==
    \/ sub = ""
    \/ \E i \in 1..(Len(s) - Len(sub) + 1) : SubSeq(s, i, i + Len(sub) - 1) = sub

StartsWith(s, p) == Len(s) >= Len(p) /\ SubSeq(s, 1, Len(p)) = p

UpperChars == "ABCDEFGHIJKLMNOPQRSTUVWXYZ"
LowerChars == "abcdefghijklmnopqrstuvwxyz"

LowerChar(c) ==
    IF \E i \in 1..26 : SubSeq(UpperChars, i, i) = c
    THEN LET i == CHOOSE j \in 1..26 : SubSeq(UpperChars, j, j) = c
         IN SubSeq(LowerChars, i, i)
    ELSE c

RECURSIVE Lower(_)
(* str.lower() *)
Lower(s) == IF s = "" THEN "" ELSE LowerChar(Head(s)) \o Lower(Tail(s))

RECURSIVE Str(_)
(* the string a run sequence stands for *)
Str(rs) == IF rs = <<>> THEN "" ELSE Rep(rs[1].c, rs[1].n) \o Str(Tail(rs))

(* a string as one run *)
Lit(s) == IF s = "" THEN <<>> ELSE <<[c |-> s, n |-> 1]>>

RECURSIVE RunsLen(_)
(* len() of a run sequence *)
RunsLen(rs) == IF rs = <<>> THEN 0 ELSE Len(rs[1].c) * rs[1].n + RunsLen(Tail(rs))

RECURSIVE RunsTake(_, _)
(* rs[:k] of a run sequence *)
RunsTake(rs, k) ==
    IF rs = <<>> \/ k <= 0 THEN <<>>
    ELSE LET r == rs[1]
             w == Len(r.c)
         IN IF w * r.n <= k THEN <<r>> \o RunsTake(Tail(rs), k - w * r.n)
            ELSE (IF k \div w > 0 THEN <<[c |-> r.c, n |-> k \div w]>> ELSE <<>>)
                 \o Lit(SubSeq(r.c, 1, k % w))

RECURSIVE Join(_, _)
(* sep.join(parts) *)
Join(sep, parts) ==
    IF parts = <<>> THEN ""
    ELSE IF Len(parts) = 1 THEN parts[1]
    ELSE parts[1] \o sep \o Join(sep, Tail(parts))

(* ---------------- JSON values as json() returns them ---------------- *)
(* t is the Python type; n, s, a, o hold the value of an int, str, list, dict *)
EmptyDict == [k \in {} |-> ""]
JNull == [t |-> "null", n |-> 0, s |-> "", a |-> <<>>, o |-> EmptyDict]
JNum(n) == [JNull EXCEPT !.t = "num", !.n = n]
JStr(s) == [JNull EXCEPT !.t = "str", !.s = s]
JArr(a) == [JNull EXCEPT !.t = "arr", !.a = a]
JObj(o) == [JNull EXCEPT !.t = "obj", !.o = o]

TypeName(x) ==
    CASE x.t = "null" -> "NoneType"
      [] x.t = "num" -> "int"
      [] x.t = "str" -> "str"
      [] x.t = "arr" -> "list"
      [] x.t = "obj" -> "dict"

(* key not in x *)
PyNotIn(key, x) ==
    CASE x.t = "obj" -> Ok(key \notin DOMAIN x.o)
      [] x.t = "arr" -> Ok(\A i \in 1..Len(x.a) : x.a[i] # JStr(key))
      [] x.t = "str" -> Ok(~Contains(x.s, key))
      [] OTHER -> Exc("TypeError", "argument of type '" \o TypeName(x) \o "' is not iterable")

(* x[key] for a string key *)
PyGetItem(x, key) ==
    CASE x.t = "obj" -> IF key \in DOMAIN x.o THEN Ok(x.o[key])
                        ELSE Exc("KeyError", "'" \o key \o "'")
      [] x.t = "arr" -> Exc("TypeError", "list indices must be integers or slices, not str")
      [] x.t = "str" -> Exc("TypeError", "string indices must be integers")
      [] OTHER -> Exc("TypeError", "'" \o TypeName(x) \o "' object is not subscriptable")

(* mutant: x is None *)
PyFalsy_NoneOnly(x) == x.t = "null"

(* not x *)
PyFalsy(x) ==
    CASE x.t = "null" -> TRUE
      [] x.t = "num" -> x.n = 0
      [] x.t = "str" -> x.s = ""
      [] x.t = "arr" -> x.a = <<>>
      [] x.t = "obj" -> DOMAIN x.o = {}

(* x[:n], as the sequence the for loop iterates over *)
PySlice(x, n) ==
    CASE x.t = "arr" -> Ok(SubSeq(x.a, 1, Min(Len(x.a), n)))
      [] x.t = "str" -> Ok([i \in 1..Min(Len(x.s), n) |-> JStr(SubSeq(x.s, i, i))])
      [] x.t = "obj" -> Exc("KeyError", "slice(None, " \o ToString(n) \o ", None)")
      [] OTHER -> Exc("TypeError", "'" \o TypeName(x) \o "' object is not subscriptable")

(* f"{x}" of a JSON value that is a string *)
Fmt(x) == IF x.t = "str" THEN x.s ELSE IF x.t = "null" THEN "None" ELSE TypeName(x)

(* result.get(key, default), formatted *)
PyGet(item, key, default) ==
    IF item.t = "obj"
    THEN Ok(IF key \in DOMAIN item.o THEN Fmt(item.o[key]) ELSE default)
    ELSE Exc("AttributeError", "'" \o TypeName(item) \o "' object has no attribute 'get'")

(* what a coroutine hands its caller: the returned string as runs; kind is
   "raise" when an exception leaves the coroutine instead *)
NoResult == [kind |-> "none", value |-> <<>>]
Returns(v) == [kind |-> "return", value |-> v]

(* mutant: only ConnectionError is caught by the first except clause *)
IsConnOrValueError_ConnOnly(cls) == cls = "ConnectionError"

(* isinstance(e, (ConnectionError, ValueError)); JSONDecodeError is a ValueError *)
IsConnOrValueError(cls) == cls \in {"ConnectionError", "ValueError", "JSONDecodeError"}

(* ---------------- make_request (server.py 25-41) ---------------- *)
NoHeaders == [k \in {} |-> ""]     \* headers=None

(* lines 27-30: the default User-Agent unless the caller set one *)
MergeHeaders(headers) ==
    IF "User-Agent" \in DOMAIN headers THEN headers
    ELSE headers @@ ("User-Agent" :> USER_AGENT)

(* line 33: the GET handed to the client *)
Request(url, headers) ==
    [url |-> url, headers |-> MergeHeaders(headers), timeout |-> 20, follow_redirects |-> TRUE]

(* response.raise_for_status() passes *)
IsSuccess(status) == 200 <= status /\ status <= 299

(* lines 32-41, given what client.get did: out.k is "RequestError" (an
   httpx.RequestError with text out.cause), "Other" (an exception of class
   out.cls that is neither RequestError nor HTTPStatusError, such as
   httpx.InvalidURL) or "response" *)
make_request(url, out) ==
    CASE out.k = "RequestError" ->
           Exc("ConnectionError", "Network error accessing " \o url \o ": " \o out.cause)
      [] out.k = "Other" -> Exc(out.cls, out.cause)
      [] out.k = "response" ->
           IF IsSuccess(out.status) THEN Ok(out)
           ELSE Exc("ValueError", "HTTP error " \o ToString(out.status) \o " accessing " \o url)

(* ---------------- brave_search (server.py 46-91) ---------------- *)
KeyMissingMessage == "Error: Brave Search API key (BRAVE_API_KEY) is not configured."
NoResultsMessage == "No web search results found."

(* mutant: BRAVE_API_KEY is None *)
KeyMissing_NoneOnly(key) == ~key.set

(* line 56: not BRAVE_API_KEY *)
KeyMissing(key) == ~key.set \/ key.value = ""

(* line 59 *)
search_url(query) ==
    "https://api.search.brave.com/res/v1/web/search?q=" \o query \o "&count="
        \o ToString(MAX_SEARCH_RESULTS)

(* lines 60-64 *)
search_headers(key) ==
    [h \in {"Accept", "Accept-Encoding", "X-Subscription-Token"} |->
        CASE h = "Accept" -> "application/json"
          [] h = "Accept-Encoding" -> "gzip"
          [] h = "X-Subscription-Token" -> key.value]

(* line 69: response.json() *)
response_json(body) ==
    IF body.fmt = "json" THEN Ok(body.json)
    ELSE Exc("JSONDecodeError", "Expecting value: line 1 column 1 (char 0)")

(* mutant: entries numbered from 0 *)
FormatEntry_ZeroBased(i, result) ==
    LET title == PyGet(result, "title", "No Title")
        url == PyGet(result, "url", "#")
        snippet == PyGet(result, "description", "No Snippet")
    IN IF title.kind = "exc" THEN title
       ELSE Ok(ToString(i) \o ". " \o title.value \o "\n   URL: " \o url.value
               \o "\n   Snippet: " \o snippet.value \o "\n")

(* lines 80-83, for enumerate index i (from 0) *)
FormatEntry(i, result) ==
    LET title == PyGet(result, "title", "No Title")
        url == PyGet(result, "url", "#")
        snippet == PyGet(result, "description", "No Snippet")
    IN IF title.kind = "exc" THEN title
       ELSE Ok(ToString(i + 1) \o ". " \o title.value \o "\n   URL: " \o url.value
               \o "\n   Snippet: " \o snippet.value \o "\n")

RECURSIVE FormatLoop(_, _, _)
(* lines 79-83: the for loop over the slice, appending to formatted_results *)
FormatLoop(items, i, formatted_results) ==
    IF i >= Len(items) THEN Ok(formatted_results)
    ELSE LET e == FormatEntry(i, items[i + 1])
         IN IF e.kind = "exc" THEN e
            ELSE FormatLoop(items, i + 1, Append(formatted_results, e.value))

(* mutant: the slice is one too long *)
SliceResults_OffByOne(results) == PySlice(results, MAX_SEARCH_RESULTS + 1)

(* line 79: results[:MAX_SEARCH_RESULTS] *)
SliceResults(results) == PySlice(results, MAX_SEARCH_RESULTS)

(* lines 78-85 *)
FormatResults(results) ==
    LET sl == SliceResults(results)
    IN IF sl.kind = "exc" THEN sl
       ELSE LET fr == FormatLoop(sl.value, 0, <<"Search Results:">>)
            IN IF fr.kind = "exc" THEN fr ELSE Ok(Join("\n", fr.value))

(* lines 71-76: Ok(TRUE) when a "no results" return is taken, Ok(FALSE) when
   the results are to be formatted, or the exception a test raised *)
NoResults(data) ==
    LET c1 == PyNotIn("web", data)
    IN IF c1.kind = "exc" THEN c1
       ELSE IF c1.value THEN Ok(TRUE)
       ELSE LET web == PyGetItem(data, "web")
            IN IF web.kind = "exc" THEN web
               ELSE LET c2 == PyNotIn("results", web.value)
                    IN IF c2.kind = "exc" THEN c2
                       ELSE IF c2.value THEN Ok(TRUE)
                       ELSE LET results == PyGetItem(web.value, "results")
                            IN IF results.kind = "exc" THEN results
                               ELSE Ok(PyFalsy(results.value))

(* lines 68-85: the try body, given the outcome of client.get *)
brave_search_try(query, out) ==
    LET response == make_request(search_url(query), out)
    IN IF response.kind = "exc" THEN response
       ELSE LET data == response_json(response.value.body)
            IN IF data.kind = "exc" THEN data
               ELSE LET nr == NoResults(data.value)
                    IN IF nr.kind = "exc" THEN nr
                       ELSE IF nr.value THEN Ok(NoResultsMessage)
                       ELSE FormatResults(data.value.o["web"].o["results"])

(* lines 87-91: what the except clauses make of exception e *)
brave_search_except(e) ==
    IF IsConnOrValueError(e.cls)
    THEN Returns(Lit("Error performing search: " \o e.msg))
    ELSE Returns(Lit("An unexpected error occurred: " \o e.msg))

(* ---------------- fetch_webpage_text (server.py 94-135) ---------------- *)
EmptyTextMessage == "Could not extract any text content from the page."
RemovedTags == {"script", "style", "nav", "footer", "header", "aside"}

(* str.isspace() of one character *)
IsSpace(c) == c \in {" ", "\n", "\t", "\r"}

(* a short string as runs of length 1 *)
Runs(s) == [i \in 1..Len(s) |-> [c |-> SubSeq(s, i, i), n |-> 1]]

RECURSIVE LStrip(_)
LStrip(rs) == IF rs # <<>> /\ IsSpace(rs[1].c) THEN LStrip(Tail(rs)) ELSE rs

RECURSIVE RStrip(_)
RStrip(rs) ==
    IF rs # <<>> /\ IsSpace(rs[Len(rs)].c) THEN RStrip(SubSeq(rs, 1, Len(rs) - 1)) ELSE rs

(* str.strip() on run-length encoded text *)
Strip(rs) == RStrip(LStrip(rs))

(* line 109: response.headers.get("content-type", "").lower() *)
content_type_of(response) ==
    Lower(IF response.ctype.present THEN response.ctype.value ELSE "")

(* line 110 *)
NotHtml(content_type) == ~Contains(content_type, "text/html")

(* mutant: the message leaves the content type out *)
NotHtmlMessage_NoType(content_type) ==
    "Error: Content type is not HTML. Cannot extract text."

(* line 111 *)
NotHtmlMessage(content_type) ==
    "Error: Content type is not HTML (" \o content_type \o "). Cannot extract text."

(* line 114: BeautifulSoup(html_content, 'html.parser'); the body is given as
   the element list the parser builds, or as markup the parser rejects *)
BeautifulSoup(body) ==
    IF body.fmt = "html" THEN Ok(body.doc)
    ELSE Exc("ParserRejectedMarkup", "expected name token")

KeptNode(node) == node.tag \notin RemovedTags

(* lines 117-118: extract() every element named in the list *)
RemoveTags(soup) == SelectSeq(soup, KeptNode)

RECURSIVE JoinRuns(_, _)
JoinRuns(sep, parts) ==
    IF parts = <<>> THEN <<>>
    ELSE IF Len(parts) = 1 THEN parts[1]
    ELSE parts[1] \o sep \o JoinRuns(sep, Tail(parts))

NonEmptyRuns(rs) == rs # <<>>

(* line 121: soup.get_text(separator=' ', strip=True) *)
get_text(soup) ==
    JoinRuns(<<[c |-> " ", n |-> 1]>>,
             SelectSeq([i \in 1..Len(soup) |-> Strip(soup[i].text)], NonEmptyRuns))

RECURSIVE SplitRuns(_, _, _)
(* text.split(): the words between whitespace; cur is the word being read *)
SplitRuns(rs, cur, words) ==
    IF rs = <<>> THEN (IF cur = <<>> THEN words ELSE Append(words, cur))
    ELSE IF IsSpace(rs[1].c)
         THEN SplitRuns(Tail(rs), <<>>, IF cur = <<>> THEN words ELSE Append(words, cur))
         ELSE SplitRuns(Tail(rs), Append(cur, rs[1]), words)

(* line 123: ' '.join(text.split()) *)
CollapseWhitespace(rs) == JoinRuns(<<[c |-> " ", n |-> 1]>>, SplitRuns(rs, <<>>, <<>>))

(* lines 114-123: the text extracted from a parsed body *)
ExtractText(soup) == CollapseWhitespace(get_text(RemoveTags(soup)))

(* mutant: the marker is appended at the limit already *)
Truncate_AtLimit(text) ==
    RunsTake(text, MAX_FETCH_CHARS)
        \o (IF RunsLen(text) >= MAX_FETCH_CHARS THEN Lit("...") ELSE <<>>)

(* line 129 *)
Truncate(text) ==
    RunsTake(text, MAX_FETCH_CHARS)
        \o (IF RunsLen(text) > MAX_FETCH_CHARS THEN Lit("...") ELSE <<>>)

(* lines 113-129, after the content-type check passed *)
ExtractAndLimit(body) ==
    LET soup == BeautifulSoup(body)
    IN IF soup.kind = "exc" THEN soup
       ELSE LET text == ExtractText(soup.value)
            IN IF text = <<>> THEN Ok(Lit(EmptyTextMessage)) ELSE Ok(Truncate(text))

(* lines 106-129: the try body, given the outcome of client.get; parsed tells
   whether line 114 was reached *)
fetch_webpage_text_try(url, out) ==
    LET response == make_request(url, out)
    IN IF response.kind = "exc" THEN [r |-> response, parsed |-> FALSE]
       ELSE LET content_type == content_type_of(response.value)
            IN IF NotHtml(content_type)
               THEN [r |-> Ok(Lit(NotHtmlMessage(content_type))), parsed |-> FALSE]
               ELSE [r |-> ExtractAndLimit(response.value.body), parsed |-> TRUE]

(* mutant: no catch-all clause, other exceptions leave the coroutine *)
fetch_webpage_text_except_NoCatchAll(url, e) ==
    IF IsConnOrValueError(e.cls)
    THEN Returns(Lit("Error fetching webpage " \o url \o ": " \o e.msg))
    ELSE [kind |-> "raise", value |-> Lit(e.msg)]

(* lines 131-135 *)
fetch_webpage_text_except(url, e) ==
    IF IsConnOrValueError(e.cls)
    THEN Returns(Lit("Error fetching webpage " \o url \o ": " \o e.msg))
    ELSE Returns(Lit("An unexpected error occurred while processing " \o url \o ": " \o e.msg))

(* ---------------- inputs and upstream behaviour ---------------- *)
JsonType == [present |-> TRUE, value |-> "application/json"]
Queries == {"tla", "model checking"}
Urls == {"https://example.org/", "http://localhost:1/page"}

ItemFull ==
    JObj([f \in {"title", "url", "description"} |->
            CASE f = "title" -> JStr("TLA+ Home")
              [] f = "url" -> JStr("https://lamport.org/tla")
              [] f = "description" -> JStr("Specifying systems")])
ItemBare == JObj(EmptyDict)
ItemNotDict == JStr("https://lamport.org")
Items == {ItemFull, ItemBare, ItemNotDict}

ResultLists == UNION {[1..n -> Items] : n \in 0..MaxResults}
ResultsValues ==
    {JNull, JStr("none"), JObj("total" :> JNum(3))} \cup {JArr(l) : l \in ResultLists}
WebValues ==
    {JNull, JNum(0), JObj(EmptyDict)} \cup {JObj("results" :> r) : r \in ResultsValues}
JsonValues ==
    {JNull, JArr(<<>>), JObj(EmptyDict)} \cup {JObj("web" :> w) : w \in WebValues}

(* a body: fmt "json" with the value it decodes to, fmt "html" with the
   elements it parses to, fmt "text" (neither) or fmt "rejected" (markup the
   HTML parser gives up on) *)
Body(fmt, json, doc) == [fmt |-> fmt, json |-> json, doc |-> doc]
TextBody == Body("text", JNull, <<>>)
SearchBodies == {TextBody} \cup {Body("json", d, <<>>) : d \in JsonValues}

TextBlank == <<[c |-> " ", n |-> 2], [c |-> "\n", n |-> 1]>>
TextHello == Runs("\n Hello   World\t")
TextScript == Runs("var q = 1;")
TextLimit == <<[c |-> "a", n |-> MAX_FETCH_CHARS]>>
TextOver == <<[c |-> "b", n |-> MAX_FETCH_CHARS + 1]>>

Node(tag, text) == [tag |-> tag, text |-> text]
Nodes ==
    {Node("p", TextBlank), Node("p", TextHello), Node("script", TextScript),
     Node("p", TextLimit), Node("p", TextOver), Node("nav", TextOver)}
Documents == UNION {[1..n -> Nodes] : n \in 0..MaxNodes}
PageBodies == {Body("rejected", JNull, <<>>)} \cup {Body("html", JNull, d) : d \in Documents}
ContentTypes ==
    {[present |-> FALSE, value |-> ""]} \cup
    {[present |-> TRUE, value |-> v] :
        v \in {"text/html", "Text/HTML; charset=UTF-8", "application/json", "Application/PDF"}}

(* what client.get can do that is no 2xx response *)
Response(status, ctype, body) ==
    [k |-> "response", cls |-> "", cause |-> "", status |-> status, ctype |-> ctype, body |-> body]
Raised(k, cls, cause) ==
    [k |-> k, cls |-> cls, cause |-> cause, status |-> 0, ctype |-> JsonType, body |-> TextBody]
NoOut == Raised("none", "", "")

Failures ==
    {Raised("RequestError", "ConnectError", c) : c \in {"All connection attempts failed", ""}}
    \cup {Raised("Other", "InvalidURL", "Invalid non-printable ASCII character in URL")}
    \cup {Response(st, JsonType, TextBody) : st \in {404, 503}}

Outcomes(t) ==
    IF t = "brave_search"
    THEN Failures \cup {Response(200, JsonType, b) : b \in SearchBodies}
    ELSE Failures \cup {Response(200, c, b) : c \in ContentTypes, b \in PageBodies}

(* ---------------- the server as a state machine ---------------- *)
VARIABLES BRAVE_API_KEY, pc, tool, arg, client, sent, out, pending, result, parsed

vars == <<BRAVE_API_KEY, pc, tool, arg, client, sent, out, pending, result, parsed>>


Init ==
    /\ BRAVE_API_KEY \in KeyValues
    /\ pc = "idle"
    /\ tool = "none"
    /\ arg = ""
    /\ client = "none"
    /\ sent = <<>>
    /\ out = NoOut
    /\ pending = NoResult
    /\ result = NoResult
    /\ parsed = FALSE

(* the host dispatches a tool call (the @mcp.tool() registrations) *)
Invoke(t, a) ==
    /\ pc \in {"idle", "done"}
    /\ pc' = "start"
    /\ tool' = t
    /\ arg' = a
    /\ client' = "none"
    /\ sent' = <<>>
    /\ out' = NoOut
    /\ pending' = NoResult
    /\ result' = NoResult
    /\ parsed' = FALSE
    /\ UNCHANGED BRAVE_API_KEY

(* brave_search lines 56-64 *)
brave_search_check_key ==
    /\ pc = "start" /\ tool = "brave_search"
    /\ IF KeyMissing(BRAVE_API_KEY)
       THEN pending' = Returns(Lit(KeyMissingMessage)) /\ pc' = "return"
       ELSE pending' = pending /\ pc' = "enter"
    /\ UNCHANGED <<BRAVE_API_KEY, tool, arg, client, sent, out, result, parsed>>

(* async with httpx.AsyncClient() as client: lines 66 and 104 *)
AsyncClientEnter ==
    /\ \/ pc = "enter" /\ tool = "brave_search"
       \/ pc = "start" /\ tool = "fetch_webpage_text"
    /\ client' = "open"
    /\ pc' = "request"
    /\ UNCHANGED <<BRAVE_API_KEY, tool, arg, sent, out, pending, result, parsed>>

(* lines 68 and 106 with make_request lines 27-33: the GET is issued *)
SendRequest ==
    /\ pc = "request"
    /\ sent' = Append(sent,
                      IF tool = "brave_search"
                      THEN Request(search_url(arg), search_headers(BRAVE_API_KEY))
                      ELSE Request(arg, NoHeaders))
    /\ pc' = "await"
    /\ UNCHANGED <<BRAVE_API_KEY, tool, arg, client, out, pending, result, parsed>>

(* await client.get(...) completes, with any outcome the upstream can produce *)
ClientGetCompletes ==
    /\ pc = "await"
    /\ \E o \in Outcomes(tool) : out' = o
    /\ pc' = "process"
    /\ UNCHANGED <<BRAVE_API_KEY, tool, arg, client, sent, pending, result, parsed>>

(* mutant: a failed request is issued again *)
brave_search_process_Retry ==
    /\ pc = "process" /\ tool = "brave_search"
    /\ LET r == brave_search_try(arg, out)
       IN IF out.k = "response" /\ IsSuccess(out.status)
          THEN /\ pending' = IF r.kind = "ok" THEN Returns(Lit(r.value))
                             ELSE brave_search_except(r)
               /\ pc' = "exit"
          ELSE pending' = pending /\ pc' = "request"
    /\ UNCHANGED <<BRAVE_API_KEY, tool, arg, client, sent, out, result, parsed>>

(* brave_search lines 68-91, from the completed get to the return statement *)
brave_search_process ==
    /\ pc = "process" /\ tool = "brave_search"
    /\ LET r == brave_search_try(arg, out)
       IN pending' = IF r.kind = "ok" THEN Returns(Lit(r.value)) ELSE brave_search_except(r)
    /\ pc' = "exit"
    /\ UNCHANGED <<BRAVE_API_KEY, tool, arg, client, sent, out, result, parsed>>

(* fetch_webpage_text lines 106-135 *)
fetch_webpage_text_process ==
    /\ pc = "process" /\ tool = "fetch_webpage_text"
    /\ LET t == fetch_webpage_text_try(arg, out)
       IN /\ pending' = IF t.r.kind = "ok" THEN Returns(t.r.value)
                        ELSE fetch_webpage_text_except(arg, t.r)
          /\ parsed' = t.parsed
    /\ pc' = "exit"
    /\ UNCHANGED <<BRAVE_API_KEY, tool, arg, client, sent, out, result>>

(* mutant: the client is closed on the success path only *)
AsyncClientExit_LeakOnError ==
    /\ pc = "exit"
    /\ client' = IF out.k = "response" /\ IsSuccess(out.status) THEN "closed" ELSE client
    /\ pc' = "return"
    /\ UNCHANGED <<BRAVE_API_KEY, tool, arg, sent, out, pending, result, parsed>>

(* leaving the async with block: the client is closed *)
AsyncClientExit ==
    /\ pc = "exit"
    /\ client' = "closed"
    /\ pc' = "return"
    /\ UNCHANGED <<BRAVE_API_KEY, tool, arg, sent, out, pending, result, parsed>>

(* the coroutine finishes: the caller gets the value, or the exception *)
Return ==
    /\ pc = "return"
    /\ result' = pending
    /\ pc' = "done"
    /\ UNCHANGED <<BRAVE_API_KEY, tool, arg, client, sent, out, pending, parsed>>

Next ==
    \/ \E q \in Queries : Invoke("brave_search", q)
    \/ \E u \in Urls : Invoke("fetch_webpage_text", u)
    \/ brave_search_check_key
    \/ AsyncClientEnter
    \/ SendRequest
    \/ ClientGetCompletes
    \/ brave_search_process
    \/ fetch_webpage_text_process
    \/ AsyncClientExit
    \/ Return

Spec == Init /\ [][Next]_vars

(* ---------------- vocabulary of the properties ---------------- *)
Done == pc = "done"
Brave == tool = "brave_search"
Fetch == tool = "fetch_webpage_text"
Returned == Str(result.value)

SearchPrefix == "Error performing search: "
FetchPrefix == "Error fetching webpage " \o arg \o ": "
UnexpectedSearchPrefix == "An unexpected error occurred: "
UnexpectedFetchPrefix == "An unexpected error occurred while processing " \o arg \o ": "

ResponseOk == out.k = "response" /\ IsSuccess(out.status)
NetworkFailure == out.k = "RequestError"
StatusFailure == out.k = "response" /\ ~IsSuccess(out.status)
JsonParseFailure == Brave /\ ResponseOk /\ out.body.fmt # "json"
JsonOk == Brave /\ ResponseOk /\ out.body.fmt = "json"
Data == out.body.json

HasWeb(d) == d.t = "obj" /\ "web" \in DOMAIN d.o
HasResults(d) == HasWeb(d) /\ d.o["web"].t = "obj" /\ "results" \in DOMAIN d.o["web"].o
ResultsOf(d) == d.o["web"].o["results"]
Shown(n) == Min(n, MAX_SEARCH_RESULTS)

(* the response has a shape on which reading web.results raises *)
ShapeFailure ==
    /\ JsonOk
    /\ \/ Data.t \in {"null", "num"}
       \/ HasWeb(Data) /\ Data.o["web"].t \in {"null", "num"}
       \/ /\ HasResults(Data)
          /\ LET r == ResultsOf(Data)
             IN \/ r.t = "str" /\ r.s # ""
                \/ r.t = "obj" /\ DOMAIN r.o # {}
                \/ r.t = "arr" /\ \E i \in 1..Shown(Len(r.a)) : r.a[i].t # "obj"

HtmlType == Contains(Lower(IF out.ctype.present THEN out.ctype.value ELSE ""), "text/html")
MarkupRejected == Fetch /\ ResponseOk /\ HtmlType /\ out.body.fmt = "rejected"

(* occurrences of sub in s *)
Count(s, sub) ==
    Cardinality({i \in 1..(Len(s) - Len(sub) + 1) : SubSeq(s, i, i + Len(sub) - 1) = sub})
EntriesIn(s) == Count(s, "\n   Snippet: ")

(* ---------------- C1 ---------------- *)
(* C1: when BRAVE_API_KEY is unset or empty, an invocation of brave_search
   issues no request and opens no client at any point, and returns exactly the
   "not configured" message. *)
C1_NoKeyNoRequest ==
    (Brave /\ (~BRAVE_API_KEY.set \/ BRAVE_API_KEY.value = "")) =>
        /\ sent = <<>>
        /\ client = "none"
        /\ out.k = "none"
        /\ Done => (result.kind = "return" /\ Returned =
                      "Error: Brave Search API key (BRAVE_API_KEY) is not configured.")

C1_Witness ==
    /\ Done /\ Brave /\ BRAVE_API_KEY.set /\ BRAVE_API_KEY.value = ""
    /\ sent = <<>> /\ result.kind = "return"

(* ---------------- C2 ---------------- *)
(* C2 as stated: every failure is rendered with the tool's own prefix, the
   response-shape failures of brave_search and the parsing failures of
   fetch_webpage_text included. *)
C2_Original ==
    Done =>
        /\ (Brave /\ (NetworkFailure \/ StatusFailure \/ JsonParseFailure \/ ShapeFailure))
              => StartsWith(Returned, SearchPrefix)
        /\ (Fetch /\ (NetworkFailure \/ StatusFailure \/ MarkupRejected))
              => StartsWith(Returned, FetchPrefix)

(* C2 amended: network, HTTP-status and JSON-decode failures (ConnectionError
   and ValueError) get the tool's prefix; a response-shape failure in
   brave_search, a parser exception in fetch_webpage_text and any other
   exception of client.get get the "An unexpected error occurred" text. *)
C2_ErrorPrefixes ==
    Done =>
        /\ (Brave /\ (NetworkFailure \/ StatusFailure \/ JsonParseFailure))
              => StartsWith(Returned, SearchPrefix)
        /\ (Brave /\ (ShapeFailure \/ out.k = "Other"))
              => StartsWith(Returned, UnexpectedSearchPrefix)
        /\ (Fetch /\ (NetworkFailure \/ StatusFailure))
              => StartsWith(Returned, FetchPrefix)
        /\ (Fetch /\ (MarkupRejected \/ out.k = "Other"))
              => StartsWith(Returned, UnexpectedFetchPrefix)

C2_Witness ==
    /\ Done /\ Fetch /\ StatusFailure /\ out.status = 503
    /\ Returned = "Error fetching webpage " \o arg \o ": HTTP error 503 accessing " \o arg

(* ---------------- C3 ---------------- *)
(* C3: whatever the request and the parsing do, no exception leaves a tool:
   the invocation ends by returning a string. *)
C3_AlwaysReturnsString ==
    /\ pending.kind \in {"none", "return"}
    /\ result.kind \in {"none", "return"}
    /\ Done => (result.kind = "return" /\ Returned \in STRING)

C3_Witness ==
    /\ Done /\ MarkupRejected /\ result.kind = "return"
    /\ StartsWith(Returned, "An unexpected error occurred")

(* ---------------- C4 ---------------- *)
(* C4 as stated: at most MAX_SEARCH_RESULTS entries in a search output, and
   the text fetch_webpage_text returns after extraction is at most
   MAX_FETCH_CHARS characters long. *)
C4_Original ==
    (Done /\ result.kind = "return") =>
        /\ Brave => EntriesIn(Returned) <= MAX_SEARCH_RESULTS
        /\ (Fetch /\ parsed) => Len(Returned) <= MAX_FETCH_CHARS

(* C4 amended: at most MAX_SEARCH_RESULTS entries; the text returned after
   extraction has at most MAX_FETCH_CHARS characters of page text, followed by
   the three characters "..." when it was cut, MAX_FETCH_CHARS + 3 in all. *)
C4_OutputLimits ==
    (Done /\ result.kind = "return") =>
        /\ Brave => EntriesIn(Returned) <= MAX_SEARCH_RESULTS
        /\ (Fetch /\ parsed) =>
              /\ Len(Returned) <= MAX_FETCH_CHARS + 3
              /\ Len(Returned) > MAX_FETCH_CHARS =>
                    /\ Len(Returned) = MAX_FETCH_CHARS + 3
                    /\ SubSeq(Returned, MAX_FETCH_CHARS + 1, MAX_FETCH_CHARS + 3) = "..."

C4_Witness ==
    /\ Done /\ Fetch /\ parsed /\ result.kind = "return"
    /\ Len(Returned) = MAX_FETCH_CHARS + 3

(* ---------------- C5 ---------------- *)
(* C5 as stated: whenever the body decodes and web.results is absent (a key
   is missing, or `web` or `results` is null or not the expected container)
   or empty, the result is exactly "No web search results found." *)
C5_Original ==
    (Done /\ JsonOk) =>
        LET absent == \/ ~HasResults(Data)
                      \/ ResultsOf(Data).t # "arr"
                      \/ ResultsOf(Data).a = <<>>
        IN absent => Returned = "No web search results found."

(* C5 amended: the result is exactly "No web search results found." when the
   decoded object has no `web` key, when `web` is an object without a
   `results` key, and when web.results is null or an empty array; when the
   decoded value or `web` is null or a number the membership test raises and
   the result is an "An unexpected error occurred: " string instead. *)
C5_NoResults ==
    (Done /\ JsonOk) =>
        /\ (Data.t = "obj" /\ ~HasWeb(Data)) => Returned = "No web search results found."
        /\ (HasWeb(Data) /\ Data.o["web"].t = "obj" /\ ~HasResults(Data))
              => Returned = "No web search results found."
        /\ (HasResults(Data) /\ ResultsOf(Data).t = "null")
              => Returned = "No web search results found."
        /\ (HasResults(Data) /\ ResultsOf(Data).t = "arr" /\ ResultsOf(Data).a = <<>>)
              => Returned = "No web search results found."
        /\ (Data.t \in {"null", "num"} \/ (HasWeb(Data) /\ Data.o["web"].t \in {"null", "num"}))
              => StartsWith(Returned, UnexpectedSearchPrefix)

C5_Witness ==
    /\ Done /\ JsonOk /\ HasResults(Data)
    /\ ResultsOf(Data).t = "arr" /\ ResultsOf(Data).a = <<>>
    /\ Returned = "No web search results found."

(* ---------------- C6 ---------------- *)
ExpectedField(item, key, default) ==
    IF key \in DOMAIN item.o THEN item.o[key].s ELSE default

ExpectedEntry(k, item) ==
    ToString(k) \o ". " \o ExpectedField(item, "title", "No Title") \o "\n"
    \o "   URL: " \o ExpectedField(item, "url", "#") \o "\n"
    \o "   Snippet: " \o ExpectedField(item, "description", "No Snippet") \o "\n"

RECURSIVE ExpectedEntries(_, _, _)
ExpectedEntries(items, k, m) ==
    IF k > m THEN "" ELSE "\n" \o ExpectedEntry(k, items[k]) \o ExpectedEntries(items, k + 1, m)

(* C6: for n >= 1 result items (JSON objects) the output is the header
   followed by exactly min(n, 5) entries, numbered 1..min(n, 5) in upstream
   order, each in the title / URL / snippet layout; later items do not appear. *)
C6_FormattedEntries ==
    (Done /\ JsonOk /\ HasResults(Data) /\ ResultsOf(Data).t = "arr") =>
        LET items == ResultsOf(Data).a
            n == Len(items)
        IN (n >= 1 /\ \A i \in 1..Shown(n) : items[i].t = "obj") =>
              /\ Returned = "Search Results:" \o ExpectedEntries(items, 1, Shown(n))
              /\ EntriesIn(Returned) = Shown(n)

C6_Witness ==
    /\ Done /\ JsonOk /\ HasResults(Data) /\ ResultsOf(Data).t = "arr"
    /\ Len(ResultsOf(Data).a) = MAX_SEARCH_RESULTS + 1
    /\ ResultsOf(Data).a[2] = ItemBare
    /\ ResultsOf(Data).a[MAX_SEARCH_RESULTS + 1] = ItemNotDict
    /\ EntriesIn(Returned) = MAX_SEARCH_RESULTS

(* ---------------- C7 ---------------- *)
NonHtmlResponse == Fetch /\ ResponseOk /\ ~HtmlType

(* no text node of the body occurs in the returned string *)
NoBodyText ==
    \A i \in 1..Len(out.body.doc) :
        LET t == Strip(out.body.doc[i].text)
        IN t # <<>> => (RunsLen(t) > Len(Returned) \/ ~Contains(Returned, Str(t)))

(* C7 as stated: for a response that is not text/html the result contains the
   literal content-type value, none of the body text, and nothing is parsed. *)
C7_Original ==
    (Done /\ NonHtmlResponse) =>
        /\ Contains(Returned, IF out.ctype.present THEN out.ctype.value ELSE "")
        /\ NoBodyText
        /\ ~parsed

(* C7 amended: the result names the content-type value in lower case (the
   empty string when the header is absent), contains none of the body text,
   and nothing is parsed. *)
C7_NonHtml ==
    (Done /\ NonHtmlResponse) =>
        /\ Returned = "Error: Content type is not HTML ("
                        \o Lower(IF out.ctype.present THEN out.ctype.value ELSE "")
                        \o "). Cannot extract text."
        /\ NoBodyText
        /\ ~parsed

C7_Witness ==
    /\ Done /\ NonHtmlResponse /\ out.ctype.value = "Application/PDF"
    /\ out.body.fmt = "html" /\ Len(out.body.doc) >= 1
    /\ Contains(Returned, "(application/pdf)")

(* ---------------- C8 ---------------- *)
(* the text lines 114-123 extract from the fetched body, as a string *)
Extracted == Str(ExtractText(out.body.doc))

(* C8: a non-empty extracted text t longer than MAX_FETCH_CHARS is returned
   as its first MAX_FETCH_CHARS characters followed by "...", and otherwise
   unchanged. *)
C8_Truncation ==
    (Done /\ Fetch /\ parsed /\ out.body.fmt = "html") =>
        LET t == Extracted
        IN t # "" =>
              Returned = IF Len(t) > MAX_FETCH_CHARS
                         THEN SubSeq(t, 1, MAX_FETCH_CHARS) \o "..."
                         ELSE t

C8_Witness ==
    /\ Done /\ Fetch /\ parsed /\ out.body.fmt = "html"
    /\ Len(Extracted) = MAX_FETCH_CHARS + 12
    /\ Len(Returned) = MAX_FETCH_CHARS + 3

(* C8, the boundary: a text of exactly MAX_FETCH_CHARS characters comes back whole *)
C8_WitnessAtLimit ==
    /\ Done /\ Fetch /\ parsed /\ out.body.fmt = "html"
    /\ Len(Extracted) = MAX_FETCH_CHARS
    /\ Returned = Extracted

(* ---------------- C9 ---------------- *)
InCall == pc \in {"request", "await", "process", "exit"}

(* C9: a client is open only inside the invocation that opened it, and once
   the invocation has returned (result, soft outcome or error string) the
   client it opened is closed; only the key-less brave_search opens none. *)
C9_ClientScoped ==
    /\ client = "open" => InCall
    /\ InCall => client = "open"
    /\ pc \in {"return", "done"} =>
          client = (IF Brave /\ KeyMissing(BRAVE_API_KEY) THEN "none" ELSE "closed")
    /\ pc \in {"idle", "start", "enter"} => client = "none"

C9_Witness ==
    /\ Done /\ Brave /\ NetworkFailure /\ client = "closed"
    /\ StartsWith(Returned, SearchPrefix)

(* ---------------- C10 ---------------- *)
(* C10: an invocation issues at most one GET; after the GET has completed,
   failed or not, exactly one request has been issued and none follows. *)
C10_SingleRequest ==
    /\ Len(sent) <= 1
    /\ pc \in {"await", "process", "exit"} => Len(sent) = 1
    /\ (pc \in {"return", "done"} /\ out.k # "none") => Len(sent) = 1
    /\ pc \in {"idle", "start", "enter", "request"} => sent = <<>>
    /\ (Done /\ (NetworkFailure \/ StatusFailure)) =>
          (Len(sent) = 1 /\ StartsWith(Returned, IF Brave THEN SearchPrefix ELSE FetchPrefix))

C10_Witness ==
    /\ Done /\ Brave /\ StatusFailure /\ Len(sent) = 1
    /\ sent[1].url = "https://api.search.brave.com/res/v1/web/search?q=" \o arg \o "&count=5"
====
